---- MODULE Spec2Model ----
(***************************************************************************)
(* Model of openstack/resource_openstack_networking_network_v2.go: the     *)
(* network resource handlers (Create, Update, Delete), the refresh         *)
(* closures that Create and Delete                                         *)
(* hand to the wait-for-state poller (waitForNetworkActive,                *)
(* waitForNetworkDelete) and the poller itself.  The poller                *)
(* (resource.StateChangeConf.WaitForState) is imported library code; it is *)
(* modelled from section 4.1 of the specification.  Time is counted in     *)
(* seconds.                                                                *)
(***************************************************************************)
EXTENDS Integers, Sequences, FiniteSets, TLC

VARIABLES
    op,       \* the handler in progress: "Create", "Update", "Delete", or "Poll" (a bare poll)
    in,       \* the declarative configuration d.Get(...) reads
    pc,       \* position of the handler / the poller
    id,       \* d.Id(), "" when unset
    net,      \* remote network: "NONE" when absent, otherwise its status
    req,      \* the PollRequest (StateChangeConf) in use
    elapsed,  \* seconds accumulated by the poll in progress
    trace,    \* what each refresh call of the poll observed and returned
    outcome,  \* the PollOutcome
    produced, \* number of outcomes the poll has produced
    calls,    \* remote requests issued so far, by kind
    variant,  \* API variant the create or update call was issued with
    ret       \* what the handler returned

vars == <<op, in, pc, id, net, req, elapsed, trace, outcome, produced, calls, variant, ret>>

-----------------------------------------------------------------------------
(* Bounds of the model *)

MaxTimeout == 11
MaxPollTimeout == 4
MaxDelay == 1
MaxInterval == 4
MaxFloor == 2
MaxSegments == 1

(* Program constants *)

Delay == 5
MinTimeout == 3

-----------------------------------------------------------------------------
(* Values *)

Status == {"BUILD", "ACTIVE", "DOWN", "ERROR"}

\* Errors of the remote API: the two classes the code tells apart (404, 409)
\* and two opaque ones.
OtherErrs == {"E500", "E503"}

NetID == "net1"

NoOutcome == [kind |-> "None", finalState |-> "", err |-> "nil"]
NoReq == [mode |-> "none", pending |-> {}, target |-> {}, initialDelay |-> 0,
          pollInterval |-> 0, minSleep |-> 0, timeout |-> 0]
NoRet == [kind |-> "pending", msg |-> "", cause |-> ""]
NilRet == [kind |-> "nil", msg |-> "", cause |-> ""]
ErrRet(msg, cause) == [kind |-> "error", msg |-> msg, cause |-> cause]
NoCalls == [create |-> 0, tags |-> 0, delete |-> 0, update |-> 0]
NoInput == [asuRaw |-> "", sharedRaw |-> "", segments |-> <<>>, external |-> FALSE,
            tags |-> 0, timeout |-> 0, changed |-> {}]

\* An entry of the "segments" list of the configuration.
SegmentMaps ==
    { [physical_network |-> "physnet1", network_type |-> "vlan", segmentation_id |-> 7] }

\* The "segments" lists drawn: up to MaxSegments entries.
SegmentLists == UNION { [1..n -> SegmentMaps] : n \in 0..MaxSegments }

Timeouts == 0..MaxTimeout
PollTimeouts == 0..MaxPollTimeout

-----------------------------------------------------------------------------
(* Pure helpers *)

\* strconv.ParseBool: "ok" with the value, or an error.
ParseBool(s) ==
    IF s \in {"1", "t", "T", "TRUE", "true", "True"} THEN [ok |-> TRUE, v |-> TRUE]
    ELSE IF s \in {"0", "f", "F", "FALSE", "false", "False"} THEN [ok |-> TRUE, v |-> FALSE]
    ELSE [ok |-> FALSE, v |-> FALSE]

\* Variant: only ACTIVE is mapped, DOWN is passed on.
ActiveStateOnlyActive(status) ==
    IF status = "ACTIVE" THEN "ACTIVE" ELSE status

\* The status the create-poll refresh reports for a remote status.
ActiveState(status) ==
    IF status = "DOWN" \/ status = "ACTIVE" THEN "ACTIVE" ELSE status

\* What networks.Get can answer.
GetResponses == (IF net = "NONE" THEN {"E404"} ELSE {net}) \cup OtherErrs

\* What networks.Delete can answer.
DeleteResponses ==
    (IF net = "NONE" THEN {"E404"} ELSE {"ok", "E409"}) \cup OtherErrs

Obs(get, del, state, err) ==
    [get |-> get, del |-> del, state |-> state, err |-> err, at |-> elapsed]

\* waitForNetworkActive's closure, applied to what the get answered.
waitForNetworkActive(resp) ==
    IF resp \notin Status
    THEN Obs(resp, "none", "", resp)
    ELSE Obs(resp, "none", ActiveState(resp), "nil")

\* Variant: the get's error is dropped.
waitForNetworkDeleteGetErrDropped(resp) ==
    IF resp = "E404"
    THEN Obs(resp, "none", "DELETED", "nil")
    ELSE Obs(resp, "none", "ACTIVE", "nil")

\* waitForNetworkDelete's closure when the get failed.
waitForNetworkDeleteGetErr(resp) ==
    IF resp = "E404"
    THEN Obs(resp, "none", "DELETED", "nil")
    ELSE Obs(resp, "none", "ACTIVE", resp)

\* Variant: a 404 answer to the delete request is not told apart.
waitForNetworkDeleteCallNo404(dresp) ==
    IF dresp = "ok" THEN Obs("ok", dresp, "ACTIVE", "nil")
    ELSE IF dresp = "E409" THEN Obs("ok", dresp, "ACTIVE", "nil")
    ELSE Obs("ok", dresp, "ACTIVE", dresp)

\* Variant: a 409 answer to the delete request is not told apart.
waitForNetworkDeleteCallNo409(dresp) ==
    IF dresp = "ok" THEN Obs("ok", dresp, "ACTIVE", "nil")
    ELSE IF dresp = "E404" THEN Obs("ok", dresp, "DELETED", "nil")
    ELSE Obs("ok", dresp, "ACTIVE", dresp)

\* Variant: an accepted delete request is reported as DELETED at once.
waitForNetworkDeleteCallOkDeleted(dresp) ==
    IF dresp = "ok" THEN Obs("ok", dresp, "DELETED", "nil")
    ELSE IF dresp = "E404" THEN Obs("ok", dresp, "DELETED", "nil")
    ELSE IF dresp = "E409" THEN Obs("ok", dresp, "ACTIVE", "nil")
    ELSE Obs("ok", dresp, "ACTIVE", dresp)

\* waitForNetworkDelete's closure after the get succeeded and the delete
\* request answered dresp.
waitForNetworkDeleteCall(dresp) ==
    IF dresp = "ok" THEN Obs("ok", dresp, "ACTIVE", "nil")
    ELSE IF dresp = "E404" THEN Obs("ok", dresp, "DELETED", "nil")
    ELSE IF dresp = "E409" THEN Obs("ok", dresp, "ACTIVE", "nil")
    ELSE Obs("ok", dresp, "ACTIVE", dresp)

Last(s) == s[Len(s)]

\* resourceNetworkingNetworkV2Segments: one provider.Segment per entry of the
\* list, in order, with the three fields of the entry.
resourceNetworkingNetworkV2Segments(list) ==
    [k \in 1..Len(list) |->
        [PhysicalNetwork |-> list[k].physical_network,
         NetworkType |-> list[k].network_type,
         SegmentationID |-> list[k].segmentation_id]]

-----------------------------------------------------------------------------
(* The poll requests the handlers build *)

\* Variant: the pending and target lists exchanged.
CreateStateConfSwapped ==
    [mode |-> "create", pending |-> {"ACTIVE"}, target |-> {"BUILD"},
     initialDelay |-> Delay, pollInterval |-> 0, minSleep |-> MinTimeout,
     timeout |-> in.timeout]

CreateStateConf ==
    [mode |-> "create", pending |-> {"BUILD"}, target |-> {"ACTIVE"},
     initialDelay |-> Delay, pollInterval |-> 0, minSleep |-> MinTimeout,
     timeout |-> in.timeout]

\* Variant: MinTimeout is left out of the configuration.
DeleteStateConfNoFloor ==
    [mode |-> "delete", pending |-> {"ACTIVE"}, target |-> {"DELETED"},
     initialDelay |-> Delay, pollInterval |-> 0, minSleep |-> 0,
     timeout |-> in.timeout]

DeleteStateConf ==
    [mode |-> "delete", pending |-> {"ACTIVE"}, target |-> {"DELETED"},
     initialDelay |-> Delay, pollInterval |-> 0, minSleep |-> MinTimeout,
     timeout |-> in.timeout]

-----------------------------------------------------------------------------
(* The poller, from section 4.1 of the specification *)

\* Variant: the sleep is the floor alone.
SleepTimeFloorOnly(r) == r.minSleep

\* The sleep between two refresh calls: pollInterval, with the minimum floor.
SleepTime(r) == IF r.pollInterval > r.minSleep THEN r.pollInterval ELSE r.minSleep

\* Variant: a state that is neither target nor pending fails the poll.
ClassifyStrict(r, o) ==
    IF o.err # "nil" THEN "fail"
    ELSE IF o.state \in r.target THEN "succeed"
    ELSE IF o.state \in r.pending THEN "continue"
    ELSE "fail"

\* What the poller makes of a refresh result: fail on an error, succeed on a
\* target state, and otherwise (pending or any other state) keep polling.
Classify(r, o) ==
    IF o.err # "nil" THEN "fail"
    ELSE IF o.state \in r.target THEN "succeed"
    ELSE "continue"

\* The poll is over once elapsed time exceeds the timeout.
TimedOut(r, t) == t > r.timeout

StartPoll(r) ==
    /\ req' = r
    /\ elapsed' = 0
    /\ trace' = <<>>
    /\ outcome' = NoOutcome
    /\ produced' = 0
    /\ pc' = "p_delay"

\* wait initialDelay, then call refresh
PollDelay ==
    /\ pc = "p_delay"
    /\ elapsed' = elapsed + req.initialDelay
    /\ pc' = "p_refresh"
    /\ UNCHANGED <<op, in, id, net, req, trace, outcome, produced, calls, variant, ret>>

PollClassify ==
    /\ pc = "p_classify"
    /\ LET o == Last(trace)
           c == Classify(req, o)
       IN  \/ /\ c = "fail"
              /\ outcome' = [kind |-> "RemoteError", finalState |-> o.state, err |-> o.err]
              /\ produced' = produced + 1
              /\ pc' = "p_done"
           \/ /\ c = "succeed"
              /\ outcome' = [kind |-> "Success", finalState |-> o.state, err |-> "nil"]
              /\ produced' = produced + 1
              /\ pc' = "p_done"
           \/ /\ c = "continue"
              /\ pc' = "p_sleep"
              /\ UNCHANGED <<outcome, produced>>
    /\ UNCHANGED <<op, in, id, net, req, elapsed, trace, calls, variant, ret>>

PollSleep ==
    /\ pc = "p_sleep"
    /\ elapsed' = elapsed + SleepTime(req)
    /\ IF TimedOut(req, elapsed')
       THEN /\ outcome' = [kind |-> "Timeout", finalState |-> Last(trace).state,
                           err |-> "Timeout"]
            /\ produced' = produced + 1
            /\ pc' = "p_done"
       ELSE /\ pc' = "p_refresh"
            /\ UNCHANGED <<outcome, produced>>
    /\ UNCHANGED <<op, in, id, net, req, trace, calls, variant, ret>>

-----------------------------------------------------------------------------
(* The refresh closures *)

\* waitForNetworkActive: one get.
RefreshActive ==
    /\ pc = "p_refresh"
    /\ req.mode = "create"
    /\ \E resp \in GetResponses :
          trace' = Append(trace, waitForNetworkActive(resp))
    /\ pc' = "p_classify"
    /\ UNCHANGED <<op, in, id, net, req, elapsed, outcome, produced, calls, variant, ret>>

\* waitForNetworkDelete, up to the get's answer.
RefreshDeleteGet ==
    /\ pc = "p_refresh"
    /\ req.mode = "delete"
    /\ \E resp \in GetResponses :
          IF resp \in Status
          THEN /\ pc' = "p_refresh_del"
               /\ UNCHANGED trace
          ELSE /\ trace' = Append(trace, waitForNetworkDeleteGetErr(resp))
               /\ pc' = "p_classify"
    /\ UNCHANGED <<op, in, id, net, req, elapsed, outcome, produced, calls, variant, ret>>

\* waitForNetworkDelete, the delete request and its answer.
RefreshDeleteCall ==
    /\ pc = "p_refresh_del"
    /\ \E dresp \in DeleteResponses :
          /\ trace' = Append(trace, waitForNetworkDeleteCall(dresp))
          /\ net' = IF dresp = "ok" THEN "NONE" ELSE net
    /\ calls' = [calls EXCEPT !.delete = @ + 1]
    /\ pc' = "p_classify"
    /\ UNCHANGED <<op, in, id, req, elapsed, outcome, produced, variant, ret>>

-----------------------------------------------------------------------------
(* The remote system, changed by others while a handler runs *)

EnvChange ==
    /\ pc # "returned"
    /\ ~(op = "Poll" /\ pc = "p_done")
    /\ net # "NONE"
    /\ \E s \in (Status \cup {"NONE"}) \ {net} : net' = s
    /\ UNCHANGED <<op, in, pc, id, req, elapsed, trace, outcome, produced, calls, variant, ret>>

-----------------------------------------------------------------------------
(* resourceNetworkingNetworkV2Create *)

Return(r) ==
    /\ ret' = r
    /\ pc' = "returned"

\* Variant: with segments, the external extension is left out.
CreateVariantNoNested(segments, isExternal) ==
    IF Len(segments) > 0
    THEN "provider"
    ELSE IF isExternal THEN "external" ELSE "plain"

\* The API variant of the create call: which extensions wrap the options.
CreateVariant(segments, isExternal) ==
    IF Len(segments) > 0
    THEN IF isExternal THEN "provider+external" ELSE "provider"
    ELSE IF isExternal THEN "external" ELSE "plain"

\* Variant: shared is not parsed before the create call.
CreateValidateNoShared ==
    /\ op = "Create"
    /\ pc = "start"
    /\ \E clientOk \in BOOLEAN :
          IF ~clientOk
          THEN Return(ErrRet("Error creating OpenStack networking client", "config"))
          ELSE IF in.asuRaw # "" /\ ~ParseBool(in.asuRaw).ok
          THEN Return(ErrRet("admin_state_up, if provided, must be either 'true' or 'false'", ""))
          ELSE /\ pc' = "c_create"
               /\ UNCHANGED ret
    /\ UNCHANGED <<op, in, id, net, req, elapsed, trace, outcome, produced, calls, variant>>

\* The client is obtained, then admin_state_up and shared are parsed.
CreateValidate ==
    /\ op = "Create"
    /\ pc = "start"
    /\ \E clientOk \in BOOLEAN :
          IF ~clientOk
          THEN Return(ErrRet("Error creating OpenStack networking client", "config"))
          ELSE IF in.asuRaw # "" /\ ~ParseBool(in.asuRaw).ok
          THEN Return(ErrRet("admin_state_up, if provided, must be either 'true' or 'false'", ""))
          ELSE IF in.sharedRaw # "" /\ ~ParseBool(in.sharedRaw).ok
          THEN Return(ErrRet("shared, if provided, must be either 'true' or 'false'", "syntax"))
          ELSE /\ pc' = "c_create"
               /\ UNCHANGED ret
    /\ UNCHANGED <<op, in, id, net, req, elapsed, trace, outcome, produced, calls, variant>>

\* networks.Create with the variant the inputs select.
CreateCall ==
    /\ op = "Create"
    /\ pc = "c_create"
    /\ variant' = CreateVariant(resourceNetworkingNetworkV2Segments(in.segments), in.external)
    /\ calls' = [calls EXCEPT !.create = @ + 1]
    /\ \/ \E s \in Status :
             /\ net' = s
             /\ pc' = "c_tags"
             /\ UNCHANGED ret
       \/ \E e \in OtherErrs \cup {"E409"} :
             /\ Return(ErrRet("Error creating OpenStack Neutron network", e))
             /\ UNCHANGED net
    /\ UNCHANGED <<op, in, id, req, elapsed, trace, outcome, produced>>

\* The tags are replaced when there are any, then the poll is set up.
CreateTags ==
    /\ op = "Create"
    /\ pc = "c_tags"
    /\ IF in.tags > 0
       THEN /\ calls' = [calls EXCEPT !.tags = @ + 1]
            /\ \/ /\ net # "NONE"
                  /\ StartPoll(CreateStateConf)
                  /\ UNCHANGED ret
               \/ \E e \in (IF net = "NONE" THEN {"E404"} ELSE {}) \cup OtherErrs :
                     /\ Return(ErrRet("Error creating Tags on Network", e))
                     /\ UNCHANGED <<req, elapsed, trace, outcome, produced>>
       ELSE /\ StartPoll(CreateStateConf)
            /\ UNCHANGED <<calls, ret>>
    /\ UNCHANGED <<op, in, id, net, variant>>

\* CheckDeleted is defined outside this file: what it may do with a failed
\* get is left open (it may clear the ID, and may return nil or an error).
CheckDeleted(err) ==
    { [id |-> i, ret |-> r] : i \in {"keep", "clear"},
                              r \in {NilRet, ErrRet("network", err)} }

\* resourceNetworkingNetworkV2Read, for a resource whose ID is i.
Read(i) ==
    \/ /\ id' = i
       /\ Return(ErrRet("Error creating OpenStack networking client", "config"))
    \/ \E resp \in GetResponses :
          IF resp \in Status
          THEN /\ id' = i
               /\ Return(NilRet)
          ELSE \E c \in CheckDeleted(resp) :
                  /\ id' = IF c.id = "clear" THEN "" ELSE i
                  /\ Return(c.ret)

\* WaitForState has returned: its error is assigned and not looked at, the
\* ID is set and the result of the read is returned.
CreateFinish ==
    /\ op = "Create"
    /\ pc = "p_done"
    /\ Read(NetID)
    /\ UNCHANGED <<op, in, net, req, elapsed, trace, outcome, produced, calls, variant>>

-----------------------------------------------------------------------------
(* resourceNetworkingNetworkV2Delete *)

DeleteStart ==
    /\ op = "Delete"
    /\ pc = "start"
    /\ \/ /\ Return(ErrRet("Error creating OpenStack networking client", "config"))
          /\ UNCHANGED <<req, elapsed, trace, outcome, produced>>
       \/ /\ StartPoll(DeleteStateConf)
          /\ UNCHANGED ret
    /\ UNCHANGED <<op, in, id, net, calls, variant>>

\* Variant: the error of WaitForState is not looked at.
DeleteFinishUnchecked ==
    /\ op = "Delete"
    /\ pc = "p_done"
    /\ id' = ""
    /\ Return(NilRet)
    /\ UNCHANGED <<op, in, net, req, elapsed, trace, outcome, produced, calls, variant>>

DeleteFinish ==
    /\ op = "Delete"
    /\ pc = "p_done"
    /\ IF outcome.err # "nil"
       THEN /\ Return(ErrRet("Error deleting OpenStack Neutron Network", outcome.err))
            /\ UNCHANGED id
       ELSE /\ id' = ""
            /\ Return(NilRet)
    /\ UNCHANGED <<op, in, net, req, elapsed, trace, outcome, produced, calls, variant>>

-----------------------------------------------------------------------------
(* resourceNetworkingNetworkV2Update *)

HasChange(attr) == attr \in in.changed

\* The value of isExternal when the update request is built.
UpdateIsExternal == IF HasChange("external") THEN in.external ELSE FALSE

\* The API variant of the update call: the external extension wraps the
\* options, carrying External = true, when isExternal is true.
UpdateVariant(isExternal) ==
    IF isExternal THEN "update+external=true" ELSE "update"

\* What a request on the existing network (tags, update) can be refused with.
WriteErrors == (IF net = "NONE" THEN {"E404"} ELSE {"E409"}) \cup OtherErrs

\* The client is obtained, name and description fill the options, and the
\* tags are replaced when they have changed.
UpdateTags ==
    /\ op = "Update"
    /\ pc = "start"
    /\ \/ /\ Return(ErrRet("Error creating OpenStack networking client", "config"))
          /\ UNCHANGED calls
       \/ /\ HasChange("tags")
          /\ calls' = [calls EXCEPT !.tags = @ + 1]
          /\ \/ /\ net # "NONE"
                /\ pc' = "u_update"
                /\ UNCHANGED ret
             \/ \E e \in WriteErrors :
                   Return(ErrRet("Error updating Tags on Network", e))
       \/ /\ ~HasChange("tags")
          /\ pc' = "u_update"
          /\ UNCHANGED <<calls, ret>>
    /\ UNCHANGED <<op, in, id, net, req, elapsed, trace, outcome, produced, variant>>

\* admin_state_up and shared are parsed when they have changed, then
\* networks.Update is called with the variant isExternal selects.
UpdateCall ==
    /\ op = "Update"
    /\ pc = "u_update"
    /\ IF HasChange("admin_state_up") /\ in.asuRaw # "" /\ ~ParseBool(in.asuRaw).ok
       THEN /\ Return(ErrRet("admin_state_up, if provided, must be either 'true' or 'false'", ""))
            /\ UNCHANGED <<calls, variant>>
       ELSE IF HasChange("shared") /\ in.sharedRaw # "" /\ ~ParseBool(in.sharedRaw).ok
       THEN /\ Return(ErrRet("shared, if provided, must be either 'true' or 'false'", "syntax"))
            /\ UNCHANGED <<calls, variant>>
       ELSE /\ variant' = UpdateVariant(UpdateIsExternal)
            /\ calls' = [calls EXCEPT !.update = @ + 1]
            /\ \/ /\ net # "NONE"
                  /\ pc' = "u_read"
                  /\ UNCHANGED ret
               \/ \E e \in WriteErrors :
                     Return(ErrRet("Error updating OpenStack Neutron Network", e))
    /\ UNCHANGED <<op, in, id, net, req, elapsed, trace, outcome, produced>>

\* The update succeeded: the result of the read is returned.
UpdateFinish ==
    /\ op = "Update"
    /\ pc = "u_read"
    /\ Read(id)
    /\ UNCHANGED <<op, in, net, req, elapsed, trace, outcome, produced, calls, variant>>

-----------------------------------------------------------------------------
(* Specifications *)

CreateInputs ==
    [asuRaw : {"", "true", "yes"}, sharedRaw : {"", "0", "maybe"},
     segments : SegmentLists, external : BOOLEAN, tags : 0..1, timeout : Timeouts,
     changed : {{}}]

DeleteInputs ==
    [asuRaw : {""}, sharedRaw : {""}, segments : {<<>>}, external : {FALSE},
     tags : {0}, timeout : Timeouts, changed : {{}}]

\* Update reads admin_state_up, shared and external, and whether they and
\* the tags have changed; name and description only fill the options.
UpdateInputs ==
    [asuRaw : {"", "true", "yes"}, sharedRaw : {"", "0", "maybe"},
     segments : {<<>>}, external : BOOLEAN, tags : {0}, timeout : {0},
     changed : SUBSET {"tags", "admin_state_up", "shared", "external"}]

InitCommon ==
    /\ pc = "start"
    /\ req = NoReq
    /\ elapsed = 0
    /\ trace = <<>>
    /\ outcome = NoOutcome
    /\ produced = 0
    /\ calls = NoCalls
    /\ variant = "none"
    /\ ret = NoRet

Init ==
    /\ InitCommon
    /\ \/ /\ op = "Create"
          /\ in \in CreateInputs
          /\ id = ""
          /\ net = "NONE"
       \/ /\ op = "Delete"
          /\ in \in DeleteInputs
          /\ id = NetID
          /\ net \in Status \cup {"NONE"}
       \/ /\ op = "Update"
          /\ in \in UpdateInputs
          /\ id = NetID
          /\ net \in Status \cup {"NONE"}

PollNext ==
    \/ PollDelay
    \/ RefreshActive
    \/ RefreshDeleteGet
    \/ RefreshDeleteCall
    \/ PollClassify
    \/ PollSleep

HandlerNext ==
    \/ CreateValidate
    \/ CreateCall
    \/ CreateTags
    \/ CreateFinish
    \/ UpdateTags
    \/ UpdateCall
    \/ UpdateFinish
    \/ DeleteStart
    \/ DeleteFinish

Next == HandlerNext \/ PollNext \/ EnvChange

Spec == Init /\ [][Next]_vars

\* The handler runs to completion: the goroutine is never starved.
FairSpec == Spec /\ WF_vars(HandlerNext \/ PollNext)

\* The poller on its own, with the timing of the request drawn freely and
\* the refresh closure of either handler.
PollRequests ==
    { [mode |-> m.mode, pending |-> m.pending, target |-> m.target,
       initialDelay |-> d, pollInterval |-> i, minSleep |-> f, timeout |-> t] :
      m \in { [mode |-> "create", pending |-> {"BUILD"}, target |-> {"ACTIVE"}],
              [mode |-> "delete", pending |-> {"ACTIVE"}, target |-> {"DELETED"}] },
      d \in 0..MaxDelay, i \in 0..MaxInterval, f \in 1..MaxFloor, t \in PollTimeouts }

InitPoll ==
    /\ op = "Poll"
    /\ in = NoInput
    /\ id = NetID
    /\ net \in Status \cup {"NONE"}
    /\ req \in PollRequests
    /\ pc = "p_delay"
    /\ elapsed = 0
    /\ trace = <<>>
    /\ outcome = NoOutcome
    /\ produced = 0
    /\ calls = NoCalls
    /\ variant = "none"
    /\ ret = NoRet

NextPoll == PollNext \/ EnvChange

PollSpec == InitPoll /\ [][NextPoll]_vars

-----------------------------------------------------------------------------
(* Vocabulary of the properties *)

\* Refresh calls made by the poll so far (one under way included).
RefreshCalls == Len(trace) + (IF pc = "p_refresh_del" THEN 1 ELSE 0)

\* The poller has dealt with the i-th refresh result.
Handled(i) == i \in 1..Len(trace) /\ (i < Len(trace) \/ pc # "p_classify")

PollOver == outcome.kind # "None"

Ceil(a, b) == (a + b - 1) \div b

-----------------------------------------------------------------------------
(* C1 *)

\* C1: once a refresh has returned, without error and before the timeout has
\* elapsed, a target state (ACTIVE for network Create), the poll's outcome is
\* success with that state as finalState.
C1_TargetReachedSucceeds ==
    \A i \in 1..Len(trace) :
        ( /\ Handled(i)
          /\ trace[i].err = "nil"
          /\ trace[i].at <= req.timeout
          /\ \/ trace[i].state \in req.target
             \/ req.mode = "create" /\ trace[i].state = "ACTIVE" )
        => /\ outcome.kind = "Success"
           /\ outcome.finalState = trace[i].state

C1_Witness ==
    /\ op = "Create"
    /\ Len(trace) >= 2
    /\ trace[1].state = "BUILD"
    /\ Last(trace).state = "ACTIVE"
    /\ Last(trace).at <= req.timeout
    /\ outcome.kind = "Success"

-----------------------------------------------------------------------------
(* C2 *)

\* C2: in a delete poll, once a refresh has seen a not-found answer, from the
\* get or from the delete request, the poll's outcome is success with
\* finalState DELETED, whatever the earlier refreshes returned.
C2_NotFoundMeansDeleted ==
    \A i \in 1..Len(trace) :
        ( /\ req.mode = "delete"
          /\ Handled(i)
          /\ (trace[i].get = "E404" \/ trace[i].del = "E404") )
        => /\ outcome.kind = "Success"
           /\ outcome.finalState = "DELETED"

C2_Witness ==
    /\ op = "Delete"
    /\ Len(trace) >= 2
    /\ trace[1].state = "ACTIVE"
    /\ Last(trace).del = "E404"
    /\ outcome.kind = "Success"
    /\ outcome.finalState = "DELETED"

-----------------------------------------------------------------------------
(* C3 *)

AllConflict ==
    /\ req.mode = "delete"
    /\ trace # <<>>
    /\ \A i \in 1..Len(trace) : trace[i].del = "E409"

\* C3: in a delete poll whose delete requests were all answered with a 409,
\* every refresh returned a pending state without error, and the poll ends,
\* if it has ended, with a TimeoutError reached past the timeout, never with
\* a RemoteError.
C3_ConflictUntilTimeout ==
    AllConflict =>
        /\ \A i \in 1..Len(trace) :
               trace[i].err = "nil" /\ trace[i].state \in req.pending
        /\ outcome.kind \in {"None", "Timeout"}
        /\ (PollOver => elapsed > req.timeout)

C3_Witness ==
    /\ op = "Delete"
    /\ AllConflict
    /\ Len(trace) >= 2
    /\ outcome.kind = "Timeout"

-----------------------------------------------------------------------------
(* C4 *)

\* The first refresh met an error of the remote that is neither a not-found
\* nor a conflict of delete mode.
FirstRefreshFailed ==
    /\ Len(trace) >= 1
    /\ \/ req.mode = "create" /\ trace[1].get \notin Status
       \/ /\ req.mode = "delete"
          /\ (trace[1].get \in OtherErrs \/ trace[1].del \in OtherErrs)

FirstError == IF trace[1].del \in OtherErrs THEN trace[1].del ELSE trace[1].get

\* C4: when the first refresh meets such an error, refresh is never called
\* again, and the poll's outcome is a RemoteError carrying that same error.
C4_FirstErrorNoRetry ==
    FirstRefreshFailed =>
        /\ RefreshCalls = 1
        /\ pc # "p_sleep"
        /\ (pc # "p_classify" =>
               outcome = [kind |-> "RemoteError", finalState |-> trace[1].state,
                          err |-> FirstError])

C4_Witness ==
    /\ op = "Delete"
    /\ FirstRefreshFailed
    /\ trace[1].get = "E503"
    /\ outcome.kind = "RemoteError"
    /\ outcome.err = "E503"

-----------------------------------------------------------------------------
(* C5 *)

PollFailed == outcome.kind \in {"RemoteError", "Timeout"}

\* C5: when the poll started by Create or Delete ended with a RemoteError or
\* a TimeoutError, the handler returns an error, and the error returned tells
\* a timeout from a remote error.
C5_PollFailureSurfaces ==
    (pc = "returned" /\ PollFailed) =>
        /\ ret.kind = "error"
        /\ (ret.cause = "Timeout" <=> outcome.kind = "Timeout")

-----------------------------------------------------------------------------
(* C6 *)

\* The i-th refresh returned, without error, a state that is neither a
\* target nor a pending state.
Unexpected(i) ==
    /\ trace[i].err = "nil"
    /\ trace[i].state \notin req.target \cup req.pending

\* C6: the poll of network Create does not fail on a state that is neither
\* target nor pending: after such a refresh result it sleeps, and it ends
\* only on a later result or by timing out past the timeout.
C6_UnexpectedStateKeepsPolling ==
    \A i \in 1..Len(trace) :
        (req.mode = "create" /\ Handled(i) /\ Unexpected(i)) =>
            IF i < Len(trace)
            THEN trace[i + 1].at > trace[i].at
            ELSE \/ pc = "p_sleep" /\ ~PollOver
                 \/ pc = "p_refresh" /\ ~PollOver /\ elapsed > trace[i].at
                 \/ outcome.kind = "Timeout" /\ elapsed > req.timeout

C6_Witness ==
    /\ op = "Create"
    /\ Len(trace) >= 2
    /\ trace[1].state = "ERROR"
    /\ Unexpected(1)
    /\ outcome.kind = "Success"

-----------------------------------------------------------------------------
(* C7 *)

RefreshStep ==
    /\ pc \in {"p_refresh", "p_refresh_del"}
    /\ pc' \in {"p_refresh_del", "p_classify"}

\* C7: a refresh call is a pure query: no step of a refresh closure issues a
\* create, tag or delete request, nor changes the remote network.
C7_RefreshIsPureQuery ==
    [][RefreshStep => (calls' = calls /\ net' = net)]_vars

-----------------------------------------------------------------------------
(* C8 *)

ShortTimeout == req.pollInterval > 0 /\ req.timeout < req.pollInterval

\* C8 as stated: with pollInterval > 0 and timeout < pollInterval the poll
\* ends with a TimeoutError after at most ceil(timeout/pollInterval)+1
\* refresh calls.
C8_ShortTimeoutAlwaysTimesOut ==
    (ShortTimeout /\ PollOver) =>
        /\ outcome.kind = "Timeout"
        /\ RefreshCalls <= Ceil(req.timeout, req.pollInterval) + 1

\* C8, amended: with pollInterval > 0 and timeout < pollInterval the poll
\* never makes more than ceil(timeout/pollInterval)+1 refresh calls, and it
\* ends with a TimeoutError unless a refresh returned an error or a target
\* state.
C8_ShortTimeoutBoundsRefresh ==
    ShortTimeout =>
        /\ RefreshCalls <= Ceil(req.timeout, req.pollInterval) + 1
        /\ PollOver =>
              \/ outcome.kind = "Timeout"
              \/ Last(trace).err # "nil"
              \/ Last(trace).state \in req.target

C8_Witness ==
    /\ op = "Poll"
    /\ ShortTimeout
    /\ req.timeout > 0
    /\ outcome.kind = "Timeout"
    /\ RefreshCalls = 1

-----------------------------------------------------------------------------
(* C9 *)

OutcomeWellFormed ==
    /\ outcome.kind \in {"None", "Success", "RemoteError", "Timeout"}
    /\ produced = (IF PollOver THEN 1 ELSE 0)
    /\ outcome.kind = "Success" =>
          outcome.finalState \in req.target /\ outcome.err = "nil"
    /\ outcome.kind = "RemoteError" => outcome.err = Last(trace).err /\ outcome.err # "nil"
    /\ outcome.kind = "Timeout" => elapsed > req.timeout

\* The refresh calls of a handler's poll are at least MinTimeout apart, so
\* the timeout bounds their number.
RefreshCallsBounded ==
    op # "Poll" => RefreshCalls <= 1 + (req.timeout \div MinTimeout)

\* C9: every poll that starts ends, after a number of refresh calls that the
\* timeout bounds; its outcome is a success with a target state, a
\* RemoteError, or a timeout once elapsed time exceeds the timeout; and the
\* outcome, once produced, is the only one.
C9_PollTerminatesOnce ==
    /\ [](pc = "p_delay" => <>PollOver)
    /\ []RefreshCallsBounded
    /\ []OutcomeWellFormed
    /\ [][PollOver => (outcome' = outcome /\ produced' = produced)]_vars

C9_Witness ==
    /\ op = "Delete"
    /\ outcome.kind = "Timeout"
    /\ Len(trace) >= 2
    /\ \A i \in 1..Len(trace) : trace[i].state = "ACTIVE"
    /\ net # "NONE"

-----------------------------------------------------------------------------
(* C10 *)

\* C10: the create-poll refresh reports ACTIVE for a remote status of DOWN or
\* ACTIVE, and every other remote status as it is, without error.
C10_DownOrActiveIsActive ==
    \A i \in 1..Len(trace) :
        (req.mode = "create" /\ trace[i].get \in Status) =>
            /\ trace[i].err = "nil"
            /\ trace[i].state =
                  (IF trace[i].get \in {"DOWN", "ACTIVE"} THEN "ACTIVE" ELSE trace[i].get)

C10_Witness ==
    /\ op = "Create"
    /\ Len(trace) >= 3
    /\ trace[1].get = "BUILD" /\ trace[1].state = "BUILD"
    /\ trace[2].get = "ERROR" /\ trace[2].state = "ERROR"
    /\ trace[3].get = "DOWN" /\ trace[3].state = "ACTIVE"

-----------------------------------------------------------------------------
(* C11 *)

\* A refresh call is about to start or is under way.
Refreshing == pc \in {"p_refresh", "p_refresh_del"}

\* C11: within a handler's poll the refresh calls follow one another: each
\* returned at a strictly later elapsed time than the one before, and a
\* call that follows another starts only once the poller has slept since
\* that one returned.
C11_RefreshSequential ==
    op \in {"Create", "Delete"} =>
        /\ \A i \in 1..(Len(trace) - 1) : trace[i + 1].at > trace[i].at
        /\ (Refreshing /\ trace # <<>>) => elapsed > Last(trace).at

C11_Witness ==
    /\ op = "Delete"
    /\ Len(trace) >= 3
    /\ trace[1].at < trace[2].at
    /\ trace[2].at < trace[3].at

-----------------------------------------------------------------------------
(* C12 *)

\* Create has made its create call.
CreateCalled == op = "Create" /\ pc \notin {"start", "c_create"} /\ variant # "none"

\* C12: Create never makes more than one create call, and the call it makes
\* is wrapped by the provider extension exactly when the segments list is not
\* empty and by the external extension exactly when external is true.
C12_CreateVariantFromInputs ==
    /\ op = "Create" => calls.create <= 1
    /\ op = "Create" => (calls.create = 1 <=> variant # "none")
    /\ CreateCalled =>
          /\ calls.create = 1
          /\ (variant \in {"provider", "provider+external"} <=> Len(in.segments) > 0)
          /\ (variant \in {"external", "provider+external"} <=> in.external)
          /\ variant \in {"plain", "provider", "external", "provider+external"}

C12_Witness ==
    /\ CreateCalled
    /\ pc = "returned"
    /\ Len(in.segments) > 0
    /\ in.external
    /\ variant = "provider+external"

-----------------------------------------------------------------------------
(* C13 *)

SawNotFound(i) == trace[i].get = "E404" \/ trace[i].del = "E404"

\* C13: in Delete's poll a refresh whose delete request was accepted returns
\* ACTIVE with a nil error; the poll succeeds, with DELETED, only on a
\* refresh that saw a not-found answer; so a poll that deleted the network
\* itself and succeeded made at least two refresh calls, the not-found one
\* after the deleting one.
C13_DeletedOnlyAfterNotFound ==
    op = "Delete" =>
        /\ \A i \in 1..Len(trace) :
              trace[i].del = "ok" => (trace[i].state = "ACTIVE" /\ trace[i].err = "nil")
        /\ outcome.kind = "Success" =>
              /\ outcome.finalState = "DELETED"
              /\ SawNotFound(Len(trace))
              /\ \A i \in 1..Len(trace) :
                    trace[i].del = "ok" => (i < Len(trace) /\ Len(trace) >= 2)

C13_Witness ==
    /\ op = "Delete"
    /\ outcome.kind = "Success"
    /\ Len(trace) = 2
    /\ trace[1].del = "ok"
    /\ trace[2].get = "E404"

-----------------------------------------------------------------------------
(* C14 *)

\* Create has returned and its create call had succeeded.
CreateReturnedAfterCreate ==
    /\ op = "Create"
    /\ pc = "returned"
    /\ calls.create = 1
    /\ ret.msg # "Error creating OpenStack Neutron network"

\* C14: whenever Create returns after its create call succeeded, the
\* resource ID is the ID of the network created.
C14_CreatedNetworkTracked ==
    CreateReturnedAfterCreate => id = NetID

-----------------------------------------------------------------------------
(* C15 *)

\* C15: when Delete has returned, the resource ID is cleared exactly when
\* its poll succeeded with DELETED; after a poll that ended with a remote
\* error or a timeout, Delete has returned an error and the ID is as it was.
C15_DeleteClearsIdIffDeleted ==
    (op = "Delete" /\ pc = "returned") =>
        /\ id = "" <=> (outcome.kind = "Success" /\ outcome.finalState = "DELETED")
        /\ id \in {"", NetID}
        /\ PollFailed => (ret.kind = "error" /\ id = NetID)
        /\ outcome.kind = "Success" => ret = NilRet

C15_Witness ==
    /\ op = "Delete"
    /\ pc = "returned"
    /\ outcome.kind = "Timeout"
    /\ ret.kind = "error"
    /\ id = NetID

-----------------------------------------------------------------------------
(* C16 *)

ValidationMessages ==
    { "admin_state_up, if provided, must be either 'true' or 'false'",
      "shared, if provided, must be either 'true' or 'false'" }

\* C16: when Update has returned the validation error of admin_state_up or
\* shared, it has issued no request that changes the remote network: no tag
\* replacement and no update call.
C16_UpdateValidatesBeforeWrites ==
    (op = "Update" /\ pc = "returned" /\ ret.msg \in ValidationMessages) =>
        (calls.tags = 0 /\ calls.update = 0)

-----------------------------------------------------------------------------
(* C17 *)

\* C17: when external has changed, the update call Update makes goes through
\* the external extension and carries the new value, true or false.
C17_ExternalChangeTransmitted ==
    (op = "Update" /\ HasChange("external") /\ calls.update = 1) =>
        variant = (IF in.external THEN "update+external=true"
                                  ELSE "update+external=false")

-----------------------------------------------------------------------------
(* C18 *)

BoolLiterals ==
    {"1", "t", "T", "TRUE", "true", "True", "0", "f", "F", "FALSE", "false", "False"}

NotABool(raw) == raw # "" /\ raw \notin BoolLiterals

\* C18: when Create is given an admin_state_up or shared value that is not
\* empty and not a boolean, it makes no create call and no tag call, starts
\* no poll, creates no network and leaves the resource ID unset, and what it
\* returns is an error.
C18_CreateValidatesFirst ==
    (op = "Create" /\ (NotABool(in.asuRaw) \/ NotABool(in.sharedRaw))) =>
        /\ calls = NoCalls
        /\ variant = "none"
        /\ net = "NONE"
        /\ req = NoReq
        /\ id = ""
        /\ pc \in {"start", "returned"}
        /\ pc = "returned" => ret.kind = "error"

C18_Witness ==
    /\ op = "Create"
    /\ pc = "returned"
    /\ in.asuRaw = "true"
    /\ in.sharedRaw = "maybe"
    /\ ret.msg = "shared, if provided, must be either 'true' or 'false'"

====
